---- MODULE Spec2Model ----
(***************************************************************************)
(* A model of the geographic R-tree of gui/spatial_rtree.h: RTreeBBox,     *)
(* RTreeLeafNode, RTreeInternalNode and RTree with Insert, Delete, Update, *)
(* Search and FindNearest.                                                 *)
(*                                                                         *)
(* Coordinates are whole degrees on a 5 degree grid.  Area() is kept in    *)
(* units of R*R*(pi/180)/10000 km^2 (about 70.8 km^2): the positive factor *)
(* R*R*pi/180 is left out and sin() is a table of sin*10000, so every      *)
(* comparison of two areas and the comparison of a waste with -1 km^2      *)
(* (waste > -1 iff waste >= 0 in these units) come out as in the code.     *)
(* Sequences are indexed from 1 where the code indexes from 0.             *)
(*                                                                         *)
(* A std::unique_ptr that was moved from, or reset, is the node Null.  A   *)
(* dereference of a null pointer ends the process: the variable crashed    *)
(* becomes TRUE and no operation follows.  A read of the uninitialised     *)
(* seed1/seed2 of SplitLeafNode yields any pair of in-range indices or an  *)
(* out-of-range read (a crash); the operation's parameter u is that value. *)
(***************************************************************************)
EXTENDS Integers, Sequences, FiniteSets, TLC

\* ---------------------------------------------------------------- bounds
MaxKey == 5
MaxCap == 4
MaxOps == 4

Keys == 1..MaxKey
AbsentKey == 99

\* ------------------------------------------------------------- RTreeBBox
DblMax == 1000

Min(a, b) == IF a < b THEN a ELSE b
Max(a, b) == IF a > b THEN a ELSE b

BBox(a, b, c, d) == [minLat |-> a, minLon |-> b, maxLat |-> c, maxLon |-> d]

InvalidBBox == BBox(DblMax, DblMax, -DblMax, -DblMax)

IsValid(r) ==
  r.minLat <= r.maxLat /\ r.minLon <= r.maxLon /\ r.minLat # DblMax

\* Expand(lat, lon) without its two std::max lines
ExpandPointLow(r, lat, lon) ==
  BBox(Min(r.minLat, lat), Min(r.minLon, lon), r.maxLat, r.maxLon)

\* Expand(other) without the test of other.IsValid()
ExpandAlways(r, other) ==
  BBox(Min(r.minLat, other.minLat), Min(r.minLon, other.minLon),
       Max(r.maxLat, other.maxLat), Max(r.maxLon, other.maxLon))

\* Intersects with <= and >= in place of < and >: rects that only touch
\* do not intersect
IntersectsOpen(r, other) ==
  IF r.maxLon <= other.minLon \/ other.maxLon <= r.minLon THEN FALSE
  ELSE IF r.minLat >= other.maxLat \/ other.minLat >= r.maxLat THEN FALSE
  ELSE TRUE

ExpandPoint(r, lat, lon) ==
  BBox(Min(r.minLat, lat), Min(r.minLon, lon),
       Max(r.maxLat, lat), Max(r.maxLon, lon))

Expand(r, other) ==
  IF IsValid(other)
  THEN BBox(Min(r.minLat, other.minLat), Min(r.minLon, other.minLon),
            Max(r.maxLat, other.maxLat), Max(r.maxLon, other.maxLon))
  ELSE r

\* FromLineSegment without its second Expand
FromFirstPoint(lat1, lon1, lat2, lon2) ==
  ExpandPoint(InvalidBBox, lat1, lon1)

FromLineSegment(lat1, lon1, lat2, lon2) ==
  ExpandPoint(ExpandPoint(InvalidBBox, lat1, lon1), lat2, lon2)

Intersects(r, other) ==
  IF r.maxLon < other.minLon \/ other.maxLon < r.minLon THEN FALSE
  ELSE IF r.minLat > other.maxLat \/ other.minLat > r.maxLat THEN FALSE
  ELSE TRUE

Contains(r, lat, lon) ==
  lat >= r.minLat /\ lat <= r.maxLat /\ lon >= r.minLon /\ lon <= r.maxLon

\* sin(d degrees) * 10000 for d a multiple of 5 in 0..90
SinTable ==
  <<0, 872, 1736, 2588, 3420, 4226, 5000, 5736, 6428, 7071,
    7660, 8192, 8660, 9063, 9397, 9659, 9848, 9962, 10000>>

Sin(d) == IF d >= 0 THEN SinTable[(d \div 5) + 1] ELSE -SinTable[((-d) \div 5) + 1]

Area(r) ==
  IF ~IsValid(r) THEN 0
  ELSE (r.maxLon - r.minLon) * (Sin(r.maxLat) - Sin(r.minLat))

EnlargementArea(r, other) ==
  IF ~IsValid(r) THEN Area(other)
  ELSE IF ~IsValid(other) THEN 0
  ELSE Area(BBox(Min(r.minLat, other.minLat), Min(r.minLon, other.minLon),
                 Max(r.maxLat, other.maxLat), Max(r.maxLon, other.maxLon)))
       - Area(r)

\* ----------------------------------------------------------------- nodes
Null == [kind |-> "null", entries |-> <<>>, children |-> <<>>, box |-> InvalidBBox]

RTreeLeafNode ==
  [kind |-> "leaf", entries |-> <<>>, children |-> <<>>, box |-> InvalidBBox]

RTreeInternalNode ==
  [kind |-> "internal", entries |-> <<>>, children |-> <<>>, box |-> InvalidBBox]

IsNull(n) == n.kind = "null"
IsLeaf(n) == n.kind = "leaf"

Entry(index, box) == [index |-> index, box |-> box]

AddEntry(leaf, index, box) ==
  [leaf EXCEPT !.entries = Append(@, Entry(index, box)),
               !.box = Expand(@, box)]

RECURSIVE AddEntries(_, _)
AddEntries(leaf, newEntries) ==
  IF newEntries = <<>> THEN leaf
  ELSE AddEntries(AddEntry(leaf, Head(newEntries).index, Head(newEntries).box),
                  Tail(newEntries))

AddChild(node, child) ==
  [node EXCEPT !.children = Append(@, child),
               !.box = Expand(@, child.box)]

RECURSIVE AddChildren(_, _)
AddChildren(node, cs) ==
  IF cs = <<>> THEN node
  ELSE AddChildren(AddChild(node, Head(cs)), Tail(cs))

RECURSIVE UnionOfBoxes(_)
UnionOfBoxes(cs) ==
  IF cs = <<>> THEN InvalidBBox
  ELSE Expand(UnionOfBoxes(SubSeq(cs, 1, Len(cs) - 1)), cs[Len(cs)].box)

RemoveAt(s, i) == SubSeq(s, 1, i - 1) \o SubSeq(s, i + 1, Len(s))

\* RemoveChild(index): the node after the removal (the removed child is
\* node.children[i])
RemoveChild(node, i) ==
  IF i > Len(node.children) THEN node
  ELSE [node EXCEPT !.children = RemoveAt(@, i),
                    !.box = UnionOfBoxes(RemoveAt(node.children, i))]

IsFull(node, maxEntries) ==
  IF IsLeaf(node) THEN Len(node.entries) >= maxEntries
  ELSE Len(node.children) >= maxEntries

SetBoundingBox(node, bbox) == [node EXCEPT !.box = bbox]

\* ---------------------------------------------------------------- Search
\* Some node that Search visits holds a null child: RTreeInternalNode::Search
\* calls child->Search on every child.
RECURSIVE HasNullChild(_)
HasNullChild(node) ==
  /\ node.kind = "internal"
  /\ \E i \in 1..Len(node.children) :
       IsNull(node.children[i]) \/ HasNullChild(node.children[i])

RECURSIVE LeafSearch(_, _)
LeafSearch(entries, queryBox) ==
  IF entries = <<>> THEN <<>>
  ELSE (IF Intersects(Head(entries).box, queryBox)
        THEN <<Head(entries).index>> ELSE <<>>)
       \o LeafSearch(Tail(entries), queryBox)

RECURSIVE NodeSearch(_, _)
RECURSIVE ChildrenSearch(_, _)
NodeSearch(node, queryBox) ==
  IF IsLeaf(node) THEN LeafSearch(node.entries, queryBox)
  ELSE ChildrenSearch(node.children, queryBox)

ChildrenSearch(cs, queryBox) ==
  IF cs = <<>> THEN <<>>
  ELSE NodeSearch(Head(cs), queryBox) \o ChildrenSearch(Tail(cs), queryBox)

\* RTree::Search: the result list, and whether the call dereferences null
SearchCrashes(rt) == ~IsNull(rt) /\ HasNullChild(rt)

Search(rt, queryBox) ==
  IF IsNull(rt) \/ HasNullChild(rt) THEN <<>> ELSE NodeSearch(rt, queryBox)

\* RTree::SearchLineIntersection
SearchLineIntersection(rt, lat1, lon1, lat2, lon2) ==
  Search(rt, FromLineSegment(lat1, lon1, lat2, lon2))

\* ----------------------------------------------------------------- Split
\* waste = combined.Area() - a.Area() - b.Area()
Waste(a, b) == Area(Expand(a, b)) - Area(a) - Area(b)

\* if (waste > maxWaste) { maxWaste = waste; seed1 = i; seed2 = j; }
KeepBest(best, waste, i, j) ==
  IF waste > best.maxWaste
  THEN [maxWaste |-> waste, seed1 |-> i, seed2 |-> j]
  ELSE best

\* The double loop of ChooseSeeds and ChooseSeedsForNodes from pair (i, j) on
RECURSIVE SeedScan(_, _, _, _)
SeedScan(boxes, i, j, best) ==
  IF i >= Len(boxes) THEN best
  ELSE SeedScan(boxes,
                IF j < Len(boxes) THEN i ELSE i + 1,
                IF j < Len(boxes) THEN j + 1 ELSE i + 2,
                KeepBest(best, Waste(boxes[i], boxes[j]), i, j))

BoxesOf(items) == [i \in 1..Len(items) |-> items[i].box]

\* ChooseSeeds on leaf entries; seed1/seed2 come in uninitialised (u)
ChooseSeeds(entries, u) ==
  SeedScan(BoxesOf(entries), 1, 2,
           [maxWaste |-> -1, seed1 |-> u[1], seed2 |-> u[2]])

\* ChooseSeedsForNodes; the caller initialises seed1 = 0, seed2 = 1
ChooseSeedsForNodes(children) ==
  SeedScan(BoxesOf(children), 1, 2,
           [maxWaste |-> -1, seed1 |-> 1, seed2 |-> 2])

\* A distribution rule that lets group1 win when the enlargements and the
\* sizes of the groups are both equal
ToGroup1OnFullTie(size1, size2, remaining, minEntries, enlargement1, enlargement2) ==
  IF size1 + remaining < minEntries THEN TRUE
  ELSE IF size2 + remaining < minEntries THEN FALSE
  ELSE enlargement1 < enlargement2
       \/ (enlargement1 = enlargement2 /\ size1 <= size2)

\* The group an item goes to: TRUE for group1.  size1, size2 are the sizes
\* of the groups, remaining the count of items still to distribute.
ToGroup1(size1, size2, remaining, minEntries, enlargement1, enlargement2) ==
  IF size1 + remaining < minEntries THEN TRUE
  ELSE IF size2 + remaining < minEntries THEN FALSE
  ELSE enlargement1 < enlargement2
       \/ (enlargement1 = enlargement2 /\ size1 < size2)

\* The distribution loop of SplitLeafNode from entry i on
RECURSIVE DistributeEntries(_, _, _, _, _, _, _, _, _)
RECURSIVE AssignEntry(_, _, _, _, _, _, _, _, _, _)
DistributeEntries(entries, i, assigned, group1, group2, box1, box2, remaining, minEntries) ==
  IF i > Len(entries) THEN [group1 |-> group1, group2 |-> group2]
  ELSE IF i \in assigned
  THEN DistributeEntries(entries, i + 1, assigned, group1, group2, box1, box2,
                         remaining, minEntries)
  ELSE AssignEntry(entries, i, assigned, group1, group2, box1, box2, remaining,
                   minEntries,
                   ToGroup1(Len(group1), Len(group2), remaining, minEntries,
                            EnlargementArea(box1, entries[i].box),
                            EnlargementArea(box2, entries[i].box)))

AssignEntry(entries, i, assigned, group1, group2, box1, box2, remaining, minEntries, toGroup1) ==
  DistributeEntries(entries, i + 1, assigned \cup {i},
                    IF toGroup1 THEN Append(group1, entries[i]) ELSE group1,
                    IF toGroup1 THEN group2 ELSE Append(group2, entries[i]),
                    IF toGroup1 THEN Expand(box1, entries[i].box) ELSE box1,
                    IF toGroup1 THEN box2 ELSE Expand(box2, entries[i].box),
                    remaining - 1, minEntries)

\* The end of SplitLeafNode: the node rebuilt from group1, newNode from group2
LeafGroups(g) ==
  [node |-> AddEntries(RTreeLeafNode, g.group1),
   newNode |-> AddEntries(RTreeLeafNode, g.group2),
   crash |-> FALSE]

\* SplitLeafNode from the sorted seeds on.  A seed outside the entries (read
\* from the uninitialised seeds) makes entries[seed] an out-of-range read.
SplitLeafSeeds(node, minEntries, seed1, seed2) ==
  IF seed1 < 1 \/ seed2 > Len(node.entries)
  THEN [node |-> node, newNode |-> Null, crash |-> TRUE]
  ELSE LeafGroups(DistributeEntries(node.entries, 1, {seed1, seed2},
                                    <<node.entries[seed1]>>,
                                    <<node.entries[seed2]>>,
                                    node.entries[seed1].box,
                                    node.entries[seed2].box,
                                    Len(node.entries) - 2, minEntries))

\* if (seed1 > seed2) std::swap(seed1, seed2)
SplitLeafSorted(node, minEntries, cs) ==
  SplitLeafSeeds(node, minEntries, Min(cs.seed1, cs.seed2), Max(cs.seed1, cs.seed2))

\* SplitLeafNode: [node, newNode, crash]
SplitLeafNode(node, minEntries, u) ==
  SplitLeafSorted(node, minEntries, ChooseSeeds(node.entries, u))

Abs(x) == IF x < 0 THEN -x ELSE x

\* The for loop of SplitInternalNode: the first child with the least
\* |enlargement1 - enlargement2|; bestDiff = -1 stands for the initial
\* std::numeric_limits<double>::max()
RECURSIVE BestDiffChild(_, _, _, _, _, _)
RECURSIVE BestDiffStep(_, _, _, _, _, _, _)
BestDiffChild(children, i, box1, box2, bestChild, bestDiff) ==
  IF i > Len(children) THEN bestChild
  ELSE BestDiffStep(children, i, box1, box2, bestChild, bestDiff,
                    Abs(EnlargementArea(box1, children[i].box)
                        - EnlargementArea(box2, children[i].box)))

BestDiffStep(children, i, box1, box2, bestChild, bestDiff, diff) ==
  BestDiffChild(children, i + 1, box1, box2,
                IF bestDiff = -1 \/ diff < bestDiff THEN i ELSE bestChild,
                IF bestDiff = -1 \/ diff < bestDiff THEN diff ELSE bestDiff)

\* The while loop of SplitInternalNode
RECURSIVE DistributeChildren(_, _, _, _, _, _)
RECURSIVE AssignChild(_, _, _, _, _, _, _)
RECURSIVE AssignChildTo(_, _, _, _, _, _, _, _)
DistributeChildren(node, group1, group2, box1, box2, minEntries) ==
  IF node.children = <<>> THEN [group1 |-> group1, group2 |-> group2]
  ELSE AssignChild(node, group1, group2, box1, box2, minEntries,
                   BestDiffChild(node.children, 1, box1, box2, 1, -1))

AssignChild(node, group1, group2, box1, box2, minEntries, bestChild) ==
  AssignChildTo(node, group1, group2, box1, box2, minEntries, bestChild,
                ToGroup1(Len(group1), Len(group2), Len(node.children), minEntries,
                         EnlargementArea(box1, node.children[bestChild].box),
                         EnlargementArea(box2, node.children[bestChild].box)))

AssignChildTo(node, group1, group2, box1, box2, minEntries, bestChild, toGroup1) ==
  DistributeChildren(
    RemoveChild(node, bestChild),
    IF toGroup1 THEN Append(group1, node.children[bestChild]) ELSE group1,
    IF toGroup1 THEN group2 ELSE Append(group2, node.children[bestChild]),
    IF toGroup1 THEN Expand(box1, node.children[bestChild].box) ELSE box1,
    IF toGroup1 THEN box2 ELSE Expand(box2, node.children[bestChild].box),
    minEntries)

\* The end of SplitInternalNode
InternalGroups(g) ==
  [node |-> AddChildren(RTreeInternalNode, g.group1),
   newNode |-> AddChildren(RTreeInternalNode, g.group2),
   crash |-> FALSE]

\* SplitInternalNode from the sorted seeds on: the seeds are removed with
\* RemoveChild(seed1) and RemoveChild(seed2 - 1)
SplitInternalSeeds(node, minEntries, seed1, seed2) ==
  InternalGroups(
    DistributeChildren(RemoveChild(RemoveChild(node, seed1), seed2 - 1),
                       <<node.children[seed1]>>,
                       <<RemoveChild(node, seed1).children[seed2 - 1]>>,
                       node.children[seed1].box,
                       RemoveChild(node, seed1).children[seed2 - 1].box,
                       minEntries))

SplitInternalSorted(node, minEntries, cs) ==
  SplitInternalSeeds(node, minEntries, Min(cs.seed1, cs.seed2),
                     Max(cs.seed1, cs.seed2))

\* SplitInternalNode: [node, newNode, crash]
SplitInternalNode(node, minEntries) ==
  SplitInternalSorted(node, minEntries, ChooseSeedsForNodes(node.children))

\* ---------------------------------------------------------------- Insert
\* The loop of ChooseBestChild from child i on
RECURSIVE BestChildScan(_, _, _, _, _, _)
RECURSIVE BestChildStep(_, _, _, _, _, _, _, _)
BestChildScan(children, box, i, bestChild, minEnlargement, minArea) ==
  IF i > Len(children) THEN bestChild
  ELSE BestChildStep(children, box, i, bestChild, minEnlargement, minArea,
                     EnlargementArea(children[i].box, box), Area(children[i].box))

BestChildStep(children, box, i, bestChild, minEnlargement, minArea, enlargement, area) ==
  IF enlargement < minEnlargement
  THEN BestChildScan(children, box, i + 1, i, enlargement, area)
  ELSE BestChildScan(children, box, i + 1,
                     IF enlargement = minEnlargement /\ area < minArea
                     THEN i ELSE bestChild,
                     minEnlargement,
                     IF enlargement = minEnlargement /\ area < minArea
                     THEN area ELSE minArea)

\* A choice by enlargement alone: the first child with the least
\* enlargement, whatever the areas
ChooseLeastEnlargement(node, box) ==
  CHOOSE c \in 1..Len(node.children) :
    \A i \in 1..Len(node.children) :
      /\ EnlargementArea(node.children[c].box, box)
           <= EnlargementArea(node.children[i].box, box)
      /\ (EnlargementArea(node.children[c].box, box)
            = EnlargementArea(node.children[i].box, box) => c <= i)

\* ChooseBestChild dereferences every child
ChooseBestChild(node, box) ==
  BestChildScan(node.children, box, 2, 1,
                EnlargementArea(node.children[1].box, box),
                Area(node.children[1].box))

AnyNull(children) == \E i \in 1..Len(children) : IsNull(children[i])

NoSplit(node) == [node |-> node, newNode |-> Null, crash |-> FALSE]
Crash(node) == [node |-> node, newNode |-> Null, crash |-> TRUE]

\* InsertInternal after AddChild(newNode) and the recomputation of the box:
\* if (internalNode->IsFull(maxEntries)) return SplitInternalNode(...)
AfterAddChild(updated, maxEntries, minEntries) ==
  IF IsFull(updated, maxEntries)
  THEN SplitInternalNode(updated, minEntries)
  ELSE NoSplit(updated)

Recomputed(added) == SetBoundingBox(added, UnionOfBoxes(added.children))

\* The part of InsertInternal that follows the recursive call on the child
\* bestChild, whose outcome is r
AfterChildInsert(node, bestChild, r, maxEntries, minEntries) ==
  IF r.crash THEN Crash(node)
  ELSE IF ~IsNull(r.newNode)
  THEN AfterAddChild(
         Recomputed(AddChild([node EXCEPT !.children[bestChild] = r.node],
                             r.newNode)),
         maxEntries, minEntries)
  ELSE NoSplit([node EXCEPT !.children[bestChild] = r.node])

\* if (leafNode->IsFull(maxEntries)) return SplitLeafNode(leafNode)
AfterAddEntry(leafNode, maxEntries, minEntries, u) ==
  IF IsFull(leafNode, maxEntries)
  THEN SplitLeafNode(leafNode, minEntries, u)
  ELSE NoSplit(leafNode)

\* InsertInternal: [node: the node afterwards, newNode: the sibling of a
\* split or Null, crash]
RECURSIVE InsertInternal(_, _, _, _, _, _)
RECURSIVE InsertIntoChild(_, _, _, _, _, _, _)
InsertInternal(node, index, box, maxEntries, minEntries, u) ==
  IF IsNull(node) THEN Crash(node)
  ELSE IF IsLeaf(node)
  THEN AfterAddEntry(AddEntry(node, index, box), maxEntries, minEntries, u)
  ELSE IF node.children = <<>> \/ AnyNull(node.children) THEN Crash(node)
  ELSE InsertIntoChild(node, index, box, maxEntries, minEntries, u,
                       ChooseBestChild(node, box))

InsertIntoChild(node, index, box, maxEntries, minEntries, u, bestChild) ==
  AfterChildInsert(node, bestChild,
                   InsertInternal(node.children[bestChild], index, box,
                                  maxEntries, minEntries, u),
                   maxEntries, minEntries)

\* An Insert that drops the sibling returned by the top-level InsertInternal
\* instead of putting a new root over both nodes
NewRootKeepsRoot(rt, r) ==
  IF r.crash THEN [root |-> rt, crash |-> TRUE]
  ELSE [root |-> r.node, crash |-> FALSE]

\* The end of RTree::Insert: if (newNode) a new root over root and newNode
NewRoot(rt, r) ==
  IF r.crash THEN [root |-> rt, crash |-> TRUE]
  ELSE IF ~IsNull(r.newNode)
  THEN [root |-> AddChild(AddChild(RTreeInternalNode, r.node), r.newNode),
        crash |-> FALSE]
  ELSE [root |-> r.node, crash |-> FALSE]

\* RTree::Insert on the root rt: [root, crash]
Insert(rt, index, box, maxEntries, minEntries, u) ==
  NewRoot(rt, InsertInternal(rt, index, box, maxEntries, minEntries, u))

\* ---------------------------------------------------------------- Delete
RECURSIVE RemainingEntries(_, _)
RemainingEntries(entries, index) ==
  IF entries = <<>> THEN <<>>
  ELSE (IF Head(entries).index # index THEN <<Head(entries)>> ELSE <<>>)
       \o RemainingEntries(Tail(entries), index)

\* The leaf branch of DeleteInternal once remainingEntries is built
DeleteFromLeaf(node, remainingEntries) ==
  IF Len(remainingEntries) = Len(node.entries)
  THEN [node |-> node, success |-> FALSE]
  ELSE IF remainingEntries = <<>> THEN [node |-> Null, success |-> TRUE]
  ELSE [node |-> AddEntries(RTreeLeafNode, remainingEntries), success |-> TRUE]

\* The children of a node whose loop moved every child into newChildren
NulledChildren(node) ==
  [node EXCEPT !.children = [i \in 1..Len(node.children) |-> Null]]

\* The internal branch of DeleteInternal after the loop over the children
DeleteFromInternal(node, l) ==
  IF ~l.childrenModified
  THEN [node |-> NulledChildren(node), success |-> FALSE]
  ELSE IF l.newChildren = <<>> THEN [node |-> Null, success |-> TRUE]
  ELSE [node |-> AddChildren(RTreeInternalNode, l.newChildren),
        success |-> TRUE]

\* DeleteInternal: [node, success].  DeleteChildren is the loop over the
\* children from child i on, DeletedChild its body after the recursive call.
RECURSIVE DeleteInternal(_, _)
RECURSIVE DeleteChildren(_, _, _, _, _)
RECURSIVE DeletedChild(_, _, _, _, _)
DeleteInternal(node, index) ==
  IF IsNull(node) THEN [node |-> Null, success |-> FALSE]
  ELSE IF IsLeaf(node)
  THEN DeleteFromLeaf(node, RemainingEntries(node.entries, index))
  ELSE DeleteFromInternal(node,
                          DeleteChildren(node.children, 1, index, <<>>, FALSE))

DeleteChildren(children, i, index, newChildren, entryFound) ==
  IF i > Len(children)
  THEN [newChildren |-> newChildren, childrenModified |-> entryFound]
  ELSE IF IsNull(children[i]) \/ entryFound
  THEN DeleteChildren(children, i + 1, index,
                      IF IsNull(children[i]) THEN newChildren
                      ELSE Append(newChildren, children[i]),
                      entryFound)
  ELSE DeletedChild(children, i, index, newChildren,
                    DeleteInternal(children[i], index))

DeletedChild(children, i, index, newChildren, r) ==
  DeleteChildren(children, i + 1, index,
                 IF r.success /\ IsNull(r.node) THEN newChildren
                 ELSE Append(newChildren, r.node),
                 r.success)

\* The end of RTree::Delete: an internal root with one child is replaced by
\* that child
Collapse(r) ==
  [root |-> IF ~IsNull(r.node) /\ ~IsLeaf(r.node) /\ Len(r.node.children) = 1
            THEN r.node.children[1]
            ELSE r.node,
   success |-> r.success]

\* RTree::Delete on the root rt: [root, success]
Delete(rt, index) == Collapse(DeleteInternal(rt, index))

\* ----------------------------------------------------------- FindNearest
\* DistanceToBox is sqrt(e) - 0.00005 * t with e the squared Euclidean
\* distance and t = 2 * (centerLat + centerLon), and exactly 0 inside the
\* box.  The value is kept as the pair (e, t): on whole degrees two
\* distances with different e differ by more than any difference of the
\* tie-breakers, so they compare by e first and by the larger t second.
Dist(e, t) == [e |-> e, t |-> t]

DistMax == Dist(8 * DblMax * DblMax, 0)

DistLess(a, b) == a.e < b.e \/ (a.e = b.e /\ a.t > b.t)

Square(x) == x * x

DistanceToBox(lat, lon, box) ==
  IF Contains(box, lat, lon) THEN Dist(0, 0)
  ELSE Dist(Square(lat - Max(box.minLat, Min(lat, box.maxLat)))
            + Square(lon - Max(box.minLon, Min(lon, box.maxLon))),
            (box.minLat + box.maxLat) + (box.minLon + box.maxLon))

NearestItem == [index |-> 0, distance |-> DistMax]

\* if (dist < nearest.distance) { nearest = {entry.index, dist}; }
Nearer(nearest, index, dist) ==
  IF DistLess(dist, nearest.distance)
  THEN [index |-> index, distance |-> dist]
  ELSE nearest

RECURSIVE NearestInEntries(_, _, _, _)
NearestInEntries(entries, lat, lon, nearest) ==
  IF entries = <<>> THEN nearest
  ELSE NearestInEntries(Tail(entries), lat, lon,
                        Nearer(nearest, Head(entries).index,
                               DistanceToBox(lat, lon, Head(entries).box)))

\* std::sort by distance; elements that compare equal keep their order
\* (the insertion sort std::sort uses on short ranges)
RECURSIVE InsertSorted(_, _)
InsertSorted(sorted, x) ==
  IF sorted = <<>> THEN <<x>>
  ELSE IF DistLess(x.first, sorted[Len(sorted)].first)
  THEN Append(InsertSorted(SubSeq(sorted, 1, Len(sorted) - 1), x),
              sorted[Len(sorted)])
  ELSE Append(sorted, x)

RECURSIVE SortedChildren(_, _, _)
SortedChildren(children, lat, lon) ==
  IF children = <<>> THEN <<>>
  ELSE InsertSorted(
         SortedChildren(SubSeq(children, 1, Len(children) - 1), lat, lon),
         [first |-> DistanceToBox(lat, lon, children[Len(children)].box),
          second |-> children[Len(children)]])

\* FindNearestInternal: [nearest, crash].  VisitSorted is the loop over
\* sortedChildren from element i on, Visited its body after the recursive call.
RECURSIVE FindNearestInternal(_, _, _, _)
RECURSIVE VisitSorted(_, _, _, _, _)
RECURSIVE Visited(_, _, _, _, _)
FindNearestInternal(node, lat, lon, nearest) ==
  IF IsNull(node) THEN [nearest |-> nearest, crash |-> FALSE]
  ELSE IF IsLeaf(node)
  THEN [nearest |-> NearestInEntries(node.entries, lat, lon, nearest),
        crash |-> FALSE]
  ELSE IF AnyNull(node.children) THEN [nearest |-> nearest, crash |-> TRUE]
  ELSE VisitSorted(SortedChildren(node.children, lat, lon), 1, lat, lon, nearest)

VisitSorted(sorted, i, lat, lon, nearest) ==
  IF i > Len(sorted) THEN [nearest |-> nearest, crash |-> FALSE]
  ELSE IF DistLess(nearest.distance, sorted[i].first)
  THEN [nearest |-> nearest, crash |-> FALSE]
  ELSE Visited(sorted, i, lat, lon,
               FindNearestInternal(sorted[i].second, lat, lon, nearest))

Visited(sorted, i, lat, lon, r) ==
  IF r.crash THEN r ELSE VisitSorted(sorted, i + 1, lat, lon, r.nearest)

NearestIndex(r) == [index |-> r.nearest.index, crash |-> r.crash]

\* RTree::FindNearest on the root rt: [index, crash]
FindNearest(rt, lat, lon) ==
  IF IsNull(rt) THEN [index |-> 0, crash |-> FALSE]
  ELSE NearestIndex(FindNearestInternal(rt, lat, lon, NearestItem))

\* ---------------------------------------------------------------- Update
\* The RTree constructor's clamp of minEntries
ClampMinEntries(maxEntries, minEntries) ==
  Min(Max(minEntries, 2), maxEntries \div 2)

EntireSpace == BBox(-DblMax, -DblMax, DblMax, DblMax)

\* FindBoxForIndex: the boxes found (at most one)
RECURSIVE FindBoxForIndex(_, _)
RECURSIVE FindBoxInChildren(_, _)
RECURSIVE FoundBox(_, _, _)
FirstBox(hits) == IF hits = <<>> THEN <<>> ELSE <<hits[1].box>>

FindBoxForIndex(node, index) ==
  IF IsNull(node) THEN <<>>
  ELSE IF IsLeaf(node)
  THEN FirstBox(SelectSeq(node.entries, LAMBDA e : e.index = index))
  ELSE FindBoxInChildren(node.children, index)

FindBoxInChildren(children, index) ==
  IF children = <<>> THEN <<>>
  ELSE FoundBox(children, index, FindBoxForIndex(Head(children), index))

FoundBox(children, index, r) ==
  IF r # <<>> THEN r ELSE FindBoxInChildren(Tail(children), index)

\* The reinsertion loop of Update over allItems; temp is [root: tempTree's
\* root, crash, foundIndex]
RECURSIVE Reinsert(_, _, _, _, _, _, _)
RECURSIVE ReinsertItem(_, _, _, _, _, _, _, _)
RECURSIVE Reinserted(_, _, _, _, _, _, _, _)
Reinsert(rt, allItems, index, temp, maxEntries, minEntries, u) ==
  IF allItems = <<>> THEN temp
  ELSE IF Head(allItems) = index
  THEN Reinsert(rt, Tail(allItems), index, [temp EXCEPT !.foundIndex = TRUE],
                maxEntries, minEntries, u)
  ELSE ReinsertItem(rt, allItems, index, temp, maxEntries, minEntries, u,
                    FindBoxForIndex(rt, Head(allItems)))

ReinsertItem(rt, allItems, index, temp, maxEntries, minEntries, u, itemBoxes) ==
  Reinserted(rt, allItems, index, temp, maxEntries, minEntries, u,
             IF itemBoxes = <<>> THEN [root |-> temp.root, crash |-> FALSE]
             ELSE Insert(temp.root, Head(allItems), itemBoxes[1],
                         maxEntries, minEntries, u))

Reinserted(rt, allItems, index, temp, maxEntries, minEntries, u, r) ==
  IF r.crash THEN [temp EXCEPT !.crash = TRUE]
  ELSE Reinsert(rt, Tail(allItems), index, [temp EXCEPT !.root = r.root],
                maxEntries, minEntries, u)

\* The end of Update when the index was found: the outcome r of
\* tempTree->Insert(index, newBox)
Replaced(rt, r) ==
  IF r.crash THEN [root |-> rt, success |-> FALSE, crash |-> TRUE]
  ELSE [root |-> r.root, success |-> TRUE, crash |-> FALSE]

\* Update after the reinsertion loop, whose outcome is t
AfterReinsert(rt, index, newBox, maxEntries, minEntries, u, t) ==
  IF t.crash THEN [root |-> rt, success |-> FALSE, crash |-> TRUE]
  ELSE IF t.foundIndex
  THEN Replaced(rt, Insert(t.root, index, newBox, maxEntries, minEntries, u))
  ELSE [root |-> rt, success |-> FALSE, crash |-> FALSE]

\* RTree::Update on the root rt with a tempTree of capacity (maxEntries,
\* tempMin): [root, success, crash]
UpdateWith(rt, index, newBox, maxEntries, tempMin, u) ==
  IF SearchCrashes(rt) THEN [root |-> rt, success |-> FALSE, crash |-> TRUE]
  ELSE AfterReinsert(rt, index, newBox, maxEntries, tempMin, u,
         Reinsert(rt, Search(rt, EntireSpace), index,
                  [root |-> RTreeLeafNode, crash |-> FALSE, foundIndex |-> FALSE],
                  maxEntries, tempMin, u))

Update(rt, index, newBox, maxEntries, minEntries, u) ==
  UpdateWith(rt, index, newBox, maxEntries,
             ClampMinEntries(maxEntries, minEntries), u)

\* ------------------------------------------------------------ the index
VARIABLES root, maxEntries, minEntries, crashed, stored, inserted, ops,
          bbox, other, last

vars == <<root, maxEntries, minEntries, crashed, stored, inserted, ops,
          bbox, other, last>>

\* An RTreeBBox object bbox, a second one other, and last, the last call
\* made on bbox; the index's operations leave them alone
rectVars == <<bbox, other, last>>

NoCall == [op |-> "none"]

\* Inputs: the boxes callers insert, the query boxes and the query points
BoxA == BBox(10, 10, 20, 20)
BoxB == BBox(0, 0, 20, 20)
BoxC == BBox(50, 50, 60, 60)
BoxD == BBox(30, 30, 40, 40)
Boxes == {BoxA, BoxB, BoxC, BoxD}
QueryBoxes == Boxes \cup {BBox(25, 25, 55, 55)}
QueryPoints == {<<15, 15>>, <<35, 35>>, <<0, 50>>}
Segments == {<<15, 15, 35, 35>>, <<35, 15, 15, 35>>, <<0, 50, 15, 15>>}

\* The uninitialised seed1/seed2 of SplitLeafNode: a pair of indices, or
\* <<0, 0>> for a value outside the entries
SeedValues == {<<0, 0>>} \cup {s \in (1..MaxCap) \X (1..MaxCap) : s[1] <= s[2]}

\* The values to draw for an operation: with the seeds <<0, 0>> an
\* operation that reads them ends in a crash, one that does not crash never
\* read them and has the same outcome with every value
SeedChoices(crash) == IF crash THEN SeedValues ELSE {<<0, 0>>}

\* stored: the (key, box) pairs a caller has inserted and not deleted, with
\* the box of the last Update; inserted: the keys ever passed to Insert;
\* ops: the number of Insert, Delete and Update calls so far
EmptyMap == [k \in {} |-> InvalidBBox]
Put(m, k, v) == [x \in DOMAIN m \cup {k} |-> IF x = k THEN v ELSE m[x]]
Drop(m, k) == [x \in DOMAIN m \ {k} |-> m[x]]

\* Keys are opaque to the index, so callers insert them in increasing order:
\* the key of the next Insert is the least one not inserted yet
NextKeys == {k \in Keys \ inserted : \A j \in Keys \ inserted : k <= j}

Init ==
  /\ maxEntries \in 2..MaxCap
  /\ \E requestedMin \in {2, 3} :
       minEntries = ClampMinEntries(maxEntries, requestedMin)
  /\ root = RTreeLeafNode
  /\ crashed = FALSE
  /\ stored = EmptyMap
  /\ inserted = {}
  /\ ops = 0
  /\ bbox = InvalidBBox
  /\ other = InvalidBBox
  /\ last = NoCall

\* The effect of an operation with outcome r on root and crashed
Outcome(r) == root' = r.root /\ crashed' = r.crash

Called == ~crashed /\ ops < MaxOps /\ ops' = ops + 1

\* Delete and Update are explored among the first MaxOps calls; a run of
\* Insert calls alone goes on until the keys are used up
InsertCalled ==
  /\ ~crashed
  /\ (ops < MaxOps \/ ops = Cardinality(inserted))
  /\ ops' = ops + 1

InsertDone(index, box, r) ==
  /\ Outcome(r)
  /\ stored' = Put(stored, index, box)
  /\ inserted' = inserted \cup {index}

DoInsert ==
  /\ InsertCalled
  /\ \E index \in NextKeys, box \in Boxes :
       \E u \in SeedChoices(Insert(root, index, box, maxEntries, minEntries,
                                   <<0, 0>>).crash) :
       InsertDone(index, box,
                  Insert(root, index, box, maxEntries, minEntries, u))
  /\ UNCHANGED <<maxEntries, minEntries>>
  /\ UNCHANGED rectVars

DeleteDone(index, r) ==
  /\ root' = r.root
  /\ stored' = Drop(stored, index)

DoDelete ==
  /\ Called
  /\ \E index \in inserted \cup {AbsentKey} :
       DeleteDone(index, Delete(root, index))
  /\ UNCHANGED <<maxEntries, minEntries, crashed, inserted>>
  /\ UNCHANGED rectVars

UpdateDone(index, newBox, r) ==
  /\ Outcome(r)
  /\ stored' = IF index \in DOMAIN stored
               THEN Put(stored, index, newBox) ELSE stored

DoUpdate ==
  /\ Called
  /\ \E index \in inserted \cup {AbsentKey}, newBox \in Boxes :
       \E u \in SeedChoices(Update(root, index, newBox, maxEntries, minEntries,
                                   <<0, 0>>).crash) :
       UpdateDone(index, newBox,
                  Update(root, index, newBox, maxEntries, minEntries, u))
  /\ UNCHANGED <<maxEntries, minEntries, inserted>>
  /\ UNCHANGED rectVars

DoSearch ==
  /\ ~crashed
  /\ \E queryBox \in QueryBoxes :
       crashed' = SearchCrashes(root)
  /\ UNCHANGED <<root, maxEntries, minEntries, stored, inserted, ops>>
  /\ UNCHANGED rectVars

DoFindNearest ==
  /\ ~crashed
  /\ \E p \in QueryPoints :
       crashed' = FindNearest(root, p[1], p[2]).crash
  /\ UNCHANGED <<root, maxEntries, minEntries, stored, inserted, ops>>
  /\ UNCHANGED rectVars

DoSearchLineIntersection ==
  /\ ~crashed
  /\ \E s \in Segments :
       crashed' = SearchCrashes(root)
  /\ UNCHANGED <<root, maxEntries, minEntries, stored, inserted, ops>>
  /\ UNCHANGED rectVars

Next ==
  \/ DoInsert
  \/ DoDelete
  \/ DoUpdate
  \/ DoSearch
  \/ DoSearchLineIntersection
  \/ DoFindNearest

Spec == Init /\ [][Next]_vars

\* Insert calls only
NextInsert ==
  DoInsert \/ DoSearch \/ DoSearchLineIntersection \/ DoFindNearest

SpecInsert == Init /\ [][NextInsert]_vars

\* ------------------------------------------------------ RTreeBBox objects
\* Coordinates of the rects and points handed to RTreeBBox
MaxCoord == 2
Coords == {5 * i : i \in 0..MaxCoord}

\* RTreeBBox() and RTreeBBox(minLat, minLon, maxLat, maxLon): the second
\* constructor takes any four values, min above max included
StartRects ==
  {InvalidBBox} \cup {BBox(a, b, c, d) : a \in Coords, b \in Coords,
                                         c \in Coords, d \in Coords}

\* The rects passed as the argument other: the default-constructed rect and
\* those with the same interval on both axes, min above max included
OtherRects ==
  {InvalidBBox} \cup {BBox(a, a, c, c) : a \in Coords, c \in Coords}

treeVars == <<root, maxEntries, minEntries, crashed, stored, inserted, ops>>

InitBBox ==
  /\ maxEntries = 4
  /\ minEntries = ClampMinEntries(4, 2)
  /\ root = RTreeLeafNode
  /\ crashed = FALSE
  /\ stored = EmptyMap
  /\ inserted = {}
  /\ ops = 0
  /\ bbox \in StartRects
  /\ other \in OtherRects
  /\ last = NoCall

\* bbox.Expand(lat, lon)
DoExpandPoint ==
  /\ \E lat \in Coords, lon \in Coords :
       /\ bbox' = ExpandPoint(bbox, lat, lon)
       /\ last' = [op |-> "ExpandPoint", prev |-> bbox, lat |-> lat, lon |-> lon]
  /\ UNCHANGED other
  /\ UNCHANGED treeVars

\* bbox.Expand(other)
DoExpand ==
  /\ bbox' = Expand(bbox, other)
  /\ last' = [op |-> "Expand", prev |-> bbox]
  /\ UNCHANGED other
  /\ UNCHANGED treeVars

\* bbox.Intersects(other)
DoIntersects ==
  /\ last' = [op |-> "Intersects", prev |-> bbox,
              hit |-> Intersects(bbox, other)]
  /\ UNCHANGED <<bbox, other>>
  /\ UNCHANGED treeVars

NextBBox == DoExpandPoint \/ DoExpand \/ DoIntersects

SpecBBox == InitBBox /\ [][NextBBox]_vars

\* ---------------------------------------------------------------- claims
Range(s) == {s[i] : i \in DOMAIN s}

\* How many times the key k occurs in a result list
Count(s, k) == Cardinality({i \in DOMAIN s : s[i] = k})

\* The nodes of the tree under node, node included
RECURSIVE Nodes(_)
Nodes(node) ==
  IF IsNull(node) THEN {}
  ELSE {node} \cup UNION {Nodes(node.children[i]) : i \in DOMAIN node.children}

\* The entries of the leaves under node, left to right
RECURSIVE EntrySeq(_)
RECURSIVE EntrySeqOf(_)
EntrySeq(node) ==
  IF IsLeaf(node) THEN node.entries ELSE EntrySeqOf(node.children)

EntrySeqOf(cs) ==
  IF cs = <<>> THEN <<>> ELSE EntrySeq(Head(cs)) \o EntrySeqOf(Tail(cs))

\* The tree rt holds the pairs of m, each once, and nothing else, and no
\* child pointer in it is null
Holds(rt, m) ==
  /\ ~IsNull(rt)
  /\ ~HasNullChild(rt)
  /\ Len(EntrySeq(rt)) = Cardinality(DOMAIN m)
  /\ \A k \in DOMAIN m : Entry(k, m[k]) \in Range(EntrySeq(rt))

\* The union of the rects of a node's entries or children
ContentsBox(n) ==
  IF IsLeaf(n) THEN UnionOfBoxes(n.entries) ELSE UnionOfBoxes(n.children)

\* The number of items of a node
Items(n) == IF IsLeaf(n) THEN Len(n.entries) ELSE Len(n.children)

\* C1: after any sequence of Insert, Delete and Update calls, every key that
\* was inserted and not deleted is contained in Search(q) for every query
\* rectangle q that intersects the key's current rect.
C1_StoredKeysAreFound ==
  ~crashed =>
    \A k \in DOMAIN stored : \A q \in QueryBoxes \cup {stored[k]} :
      Intersects(stored[k], q) => k \in Range(Search(root, q))

\* C2: after Insert calls only, Search(q) returns exactly the inserted keys
\* whose rect intersects q, and a query covering all rects returns as many
\* results as there were inserts.
C2_InsertOnlySearchIsExact ==
  ~crashed =>
    /\ \A q \in QueryBoxes :
         Range(Search(root, q)) = {k \in DOMAIN stored : Intersects(stored[k], q)}
    /\ Len(Search(root, EntireSpace)) = Cardinality(inserted)

\* C3: Delete of a key that is not stored returns false and leaves the tree
\* unchanged, whatever the height of the tree.
C3_DeleteAbsentKeepsTree ==
  (~crashed /\ Holds(root, stored)) =>
    Delete(root, AbsentKey) = [root |-> root, success |-> FALSE]

\* C4: after a successful Delete(k), every other stored key j is still
\* stored with its rect, and Search of j's rect returns j exactly once.
C4_DeleteKeepsOtherKeys ==
  (~crashed /\ Holds(root, stored)) =>
    \A k \in DOMAIN stored :
      Delete(root, k).success =>
        \A j \in DOMAIN stored \ {k} :
          /\ Entry(j, stored[j]) \in Range(EntrySeq(Delete(root, k).root))
          /\ Count(Search(Delete(root, k).root, stored[j]), j) = 1

\* C5: after Delete(key) succeeds, no Search result contains key and a
\* second Delete(key) returns false.
C5_DeletedKeyIsGone ==
  ~crashed =>
    \A k \in DOMAIN stored :
      Delete(root, k).success =>
        /\ \A q \in QueryBoxes \cup {EntireSpace} :
             k \notin Range(Search(Delete(root, k).root, q))
        /\ ~Delete(Delete(root, k).root, k).success

\* C6: after every operation the cached rect of every node equals the union
\* of the rects of its entries or of its children's cached rects.
C6_CachedRectIsUnion ==
  ~crashed => \A n \in Nodes(root) : n.box = ContentsBox(n)

\* C7: every node, the root included, holds at most maxEntries items.
C7_AtMostMaxEntries ==
  ~crashed => \A n \in Nodes(root) : Items(n) <= maxEntries

\* C8: after Insert calls only, every non-root node holds at least
\* minEntries items.
C8_AtLeastMinEntries ==
  ~crashed => \A n \in Nodes(root) \ {root} : Items(n) >= minEntries

\* C9: the root is never null, and when no entry is stored the root is an
\* empty leaf.
C9_RootNeverNull ==
  ~crashed =>
    /\ ~IsNull(root)
    /\ (DOMAIN stored = {} => root = RTreeLeafNode)

\* C10: Search and FindNearest never dereference a null child or root.
C10_QueriesNeverDerefNull ==
  ~crashed =>
    /\ ~SearchCrashes(root)
    /\ \A p \in QueryPoints : ~FindNearest(root, p[1], p[2]).crash

\* The outcomes of Update(k, b) on the tree rt, one for each value the
\* uninitialised seeds can hold when a split reads them
UpdateOutcomes(rt, k, b) ==
  {Update(rt, k, b, maxEntries, minEntries, u) :
     u \in SeedChoices(Update(rt, k, b, maxEntries, minEntries, <<0, 0>>).crash)}

\* C11: Update(key, newRect) on a stored key returns true, and afterwards
\* the key is returned by Search(newRect) and not by Search of its old
\* rectangle (stated here for an old rectangle disjoint from newRect, on a
\* tree that holds exactly the stored pairs).
C11_UpdateMovesKey ==
  (~crashed /\ Holds(root, stored)) =>
    \A k \in DOMAIN stored : \A b \in Boxes :
      \A r \in UpdateOutcomes(root, k, b) :
        /\ ~r.crash
        /\ r.success
        /\ k \in Range(Search(r.root, b))
        /\ (~Intersects(stored[k], b) =>
              k \notin Range(Search(r.root, stored[k])))

\* C12: Update of a key that is not stored returns false and leaves the
\* root, every node and every entry as before the call.
C12_UpdateAbsentKeepsTree ==
  ~crashed =>
    \A k \in (inserted \cup {AbsentKey}) \ DOMAIN stored : \A b \in Boxes :
      \A r \in UpdateOutcomes(root, k, b) :
        r = [root |-> root, success |-> FALSE, crash |-> FALSE]

\* C13: a successful Update(key, newRect) changes only the rect of key: the
\* rebuilt tree holds the old entries with key's rect replaced, nothing
\* lost, nothing added.
C13_UpdateChangesOnlyKey ==
  (~crashed /\ Holds(root, stored)) =>
    \A k \in DOMAIN stored : \A b \in Boxes :
      \A r \in UpdateOutcomes(root, k, b) :
        (~r.crash /\ r.success) => Holds(r.root, Put(stored, k, b))

\* The values of DistanceToBox from the point p over the entries of rt
DistancesOf(rt, p) ==
  {DistanceToBox(p[1], p[2], EntrySeq(rt)[i].box) : i \in DOMAIN EntrySeq(rt)}

\* d is the least of the distances ds
IsMinimum(d, ds) == d \in ds /\ \A x \in ds : ~DistLess(x, d)

\* C14: on every non-empty tree FindNearest returns a key whose
\* DistanceToBox equals the minimum of DistanceToBox over all stored
\* entries (stated here for trees that hold exactly the stored pairs).
C14_FindNearestIsMinimum ==
  (~crashed /\ Holds(root, stored) /\ DOMAIN stored # {}) =>
    \A p \in QueryPoints :
      /\ ~FindNearest(root, p[1], p[2]).crash
      /\ FindNearest(root, p[1], p[2]).index \in DOMAIN stored
      /\ IsMinimum(DistanceToBox(p[1], p[2],
                                 stored[FindNearest(root, p[1], p[2]).index]),
                   DistancesOf(root, p))

\* C15: Search(q) returns only keys that are stored and whose current rect
\* intersects q.
C15_SearchReturnsOnlyStored ==
  ~crashed =>
    \A q \in QueryBoxes \cup {EntireSpace} :
      \A k \in Range(Search(root, q)) :
        k \in DOMAIN stored /\ Intersects(stored[k], q)

\* C16: the effective minEntries lies in [2, maxEntries/2].
C16_MinEntriesClamped ==
  2 <= minEntries /\ minEntries <= maxEntries \div 2

\* C17: the list returned by Search never contains a key more than once.
C17_SearchHasNoDuplicates ==
  ~crashed =>
    \A q \in QueryBoxes \cup {EntireSpace} :
      \A k \in Range(Search(root, q)) : Count(Search(root, q), k) = 1

\* The rect (min, min, max, max) of the endpoints of the segment s
SegmentRect(s) ==
  BBox(Min(s[1], s[3]), Min(s[2], s[4]), Max(s[1], s[3]), Max(s[2], s[4]))

\* C18: SearchLineIntersection returns exactly Search of the endpoints'
\* rect, the same with the endpoints swapped, and includes every stored key
\* whose rect intersects that rect.
C18_LineSearchIsRectSearch ==
  ~crashed =>
    \A s \in Segments :
      /\ SearchLineIntersection(root, s[1], s[2], s[3], s[4])
           = Search(root, SegmentRect(s))
      /\ SearchLineIntersection(root, s[3], s[4], s[1], s[2])
           = SearchLineIntersection(root, s[1], s[2], s[3], s[4])
      /\ \A k \in DOMAIN stored :
           Intersects(stored[k], SegmentRect(s)) =>
             k \in Range(SearchLineIntersection(root, s[1], s[2], s[3], s[4]))

\* C19: whenever no entry is stored, FindNearest returns 0 and Search
\* returns the empty list.
C19_EmptyIndexQueries ==
  (~crashed /\ DOMAIN stored = {}) =>
    /\ \A p \in QueryPoints :
         FindNearest(root, p[1], p[2]) = [index |-> 0, crash |-> FALSE]
    /\ ~SearchCrashes(root)
    /\ \A q \in QueryBoxes \cup {EntireSpace} : Search(root, q) = <<>>

\* C20: Delete(key) returns true exactly when key is stored at the time of
\* the call.
C20_DeleteReturnsStored ==
  ~crashed =>
    \A k \in inserted \cup {AbsentKey} :
      Delete(root, k).success <=> k \in DOMAIN stored

\* The rect a covers the rect b
Covers(a, b) ==
  /\ a.minLat <= b.minLat /\ a.minLon <= b.minLon
  /\ a.maxLat >= b.maxLat /\ a.maxLon >= b.maxLon

\* C26 (as the code has it): a default-constructed rect is invalid;
\* Expand(lat, lon) on a default-constructed rect gives the valid rect of
\* zero extent at that point; on any rect it gives a valid rect that
\* contains the point and still covers the previous valid extent.
C26_ExpandPointFromDefault ==
  /\ ~IsValid(InvalidBBox)
  /\ last.op = "ExpandPoint" =>
       /\ IsValid(bbox)
       /\ Contains(bbox, last.lat, last.lon)
       /\ (IsValid(last.prev) => Covers(bbox, last.prev))
       /\ (last.prev = InvalidBBox =>
             bbox = BBox(last.lat, last.lon, last.lat, last.lon))

\* Expand(lat, lon) was called on a default-constructed rect
C26_Witness ==
  /\ last.op = "ExpandPoint"
  /\ last.prev = InvalidBBox
  /\ bbox = BBox(5, 10, 5, 10)

\* C26 (as stated): Expand(lat, lon) on any invalid rect gives the rect of
\* zero extent at that point.
C26_ExpandPointFromAnyInvalid ==
  (last.op = "ExpandPoint" /\ ~IsValid(last.prev)) =>
    bbox = BBox(last.lat, last.lon, last.lat, last.lon)

\* Two rects are apart on the longitude axis or on the latitude axis
Disjoint(a, b) ==
  \/ a.maxLon < b.minLon \/ b.maxLon < a.minLon
  \/ a.maxLat < b.minLat \/ b.maxLat < a.minLat

\* C27: Intersects is symmetric for all rects, and for two valid rects it
\* is true exactly when they are not disjoint on either axis, so rects that
\* only touch at an edge or a corner intersect.
C27_IntersectsSymmetric ==
  last.op = "Intersects" =>
    /\ last.hit = Intersects(other, bbox)
    /\ (IsValid(bbox) /\ IsValid(other)) => (last.hit <=> ~Disjoint(bbox, other))

\* Intersects was called on two valid rects of positive extent that touch
\* at one corner only, and returned true
C27_Witness ==
  /\ last.op = "Intersects"
  /\ last.hit
  /\ bbox = BBox(0, 0, 5, 5)
  /\ other = BBox(5, 5, 10, 10)

\* C28: Expand(other) with an invalid other leaves the receiver's four
\* coordinates unchanged, also when the receiver is invalid; with a valid
\* other the result is the component-wise min/max union; expanding by two
\* rects in either order gives the same rect.
C28_ExpandByRect ==
  last.op = "Expand" =>
    /\ (~IsValid(other) => bbox = last.prev)
    /\ (IsValid(other) =>
          bbox = BBox(Min(last.prev.minLat, other.minLat),
                      Min(last.prev.minLon, other.minLon),
                      Max(last.prev.maxLat, other.maxLat),
                      Max(last.prev.maxLon, other.maxLon)))
    /\ \A a \in StartRects :
         Expand(bbox, a) = Expand(Expand(last.prev, a), other)

\* Expand(other) was called on an invalid receiver with an invalid other
\* that is not the default-constructed rect
C28_Witness ==
  /\ last.op = "Expand"
  /\ ~IsValid(other)
  /\ other = BBox(10, 10, 0, 0)
  /\ ~IsValid(last.prev)
  /\ bbox = BBox(5, 5, 0, 0)

\* ------------------------------------------------- the worked example
\* The boxes of the example, by key, and the segments it searches
ExampleBox ==
  <<BBox(10, 10, 20, 20), BBox(30, 30, 40, 40), BBox(50, 50, 60, 60),
    BBox(15, 15, 25, 25)>>
ExampleSegments == {<<5, 5, 55, 55>>, <<70, 5, 80, 15>>}

\* Insert of the next key with one of the example's boxes
DoInsertExample ==
  /\ InsertCalled
  /\ \E index \in NextKeys \cap DOMAIN ExampleBox, box \in Range(ExampleBox) :
       \E u \in SeedChoices(Insert(root, index, box, maxEntries, minEntries,
                                   <<0, 0>>).crash) :
       InsertDone(index, box,
                  Insert(root, index, box, maxEntries, minEntries, u))
  /\ UNCHANGED <<maxEntries, minEntries>>
  /\ UNCHANGED rectVars

DoExampleLineSearch ==
  /\ ~crashed
  /\ \E s \in ExampleSegments :
       crashed' = SearchCrashes(root)
  /\ UNCHANGED <<root, maxEntries, minEntries, stored, inserted, ops>>
  /\ UNCHANGED rectVars

NextExample == DoInsertExample \/ DoExampleLineSearch

SpecExample == Init /\ [][NextExample]_vars

\* The index is an Index(4,2) into which the example's four boxes were
\* inserted with the keys 1, 2, 3, 4 in that order
ExampleBuilt ==
  ~crashed /\ maxEntries = 4 /\ minEntries = 2 /\ stored = ExampleBox

\* C23 (as the code has it): in the example's index
\* SearchLineIntersection(5,5,55,55) returns the four keys 1, 2, 3, 4, each
\* once, and SearchLineIntersection(70,5,80,15) returns the empty list.
C23_ExampleLineSearch ==
  ExampleBuilt =>
    /\ Range(SearchLineIntersection(root, 5, 5, 55, 55)) = {1, 2, 3, 4}
    /\ Len(SearchLineIntersection(root, 5, 5, 55, 55)) = 4
    /\ SearchLineIntersection(root, 70, 5, 80, 15) = <<>>

\* The example's index is built; the fourth Insert has split the root leaf
C23_Witness == ExampleBuilt /\ ~IsLeaf(root)

\* C23 (as stated): SearchLineIntersection(5,5,55,55) returns exactly the
\* key set {1,2,3}.
C23_ExampleReturnsThreeKeys ==
  ExampleBuilt =>
    /\ Range(SearchLineIntersection(root, 5, 5, 55, 55)) = {1, 2, 3}
    /\ SearchLineIntersection(root, 70, 5, 80, 15) = <<>>

\* The outcomes of Insert(k, b) on the tree rt, one for each value the
\* uninitialised seeds can hold when a split reads them
InsertOutcomes(rt, k, b) ==
  {Insert(rt, k, b, maxEntries, minEntries, u) :
     u \in SeedChoices(Insert(rt, k, b, maxEntries, minEntries, <<0, 0>>).crash)}

\* C21: Insert splits a node only when the node holds more than maxEntries
\* items after the addition; a leaf that holds exactly maxEntries entries
\* after the addition is not split (stated here for a root leaf that holds
\* maxEntries - 1 entries before the Insert).
C21_SplitOnlyAboveMaxEntries ==
  (~crashed /\ IsLeaf(root) /\ Len(root.entries) = maxEntries - 1) =>
    \A k \in NextKeys : \A b \in Boxes : \A r \in InsertOutcomes(root, k, b) :
      ~r.crash /\ IsLeaf(r.root) /\ Len(r.root.entries) = maxEntries

\* Every non-root node of the tree rt holds at least minEntries items
MinFilled(rt) == \A n \in Nodes(rt) \ {rt} : Items(n) >= minEntries

\* C22: after a Delete no non-root node is left with fewer than minEntries
\* items (stated here for a Delete on a tree that holds exactly the stored
\* pairs and whose non-root nodes all hold at least minEntries items).
C22_DeleteKeepsMinEntries ==
  (~crashed /\ Holds(root, stored) /\ MinFilled(root)) =>
    \A k \in DOMAIN stored : MinFilled(Delete(root, k).root)

\* The tree built in an Index(maxEntries, minEntries) by Insert of the pairs
\* of m for the keys of the sequence order, in that order; a split that
\* would read the uninitialised seeds ends the build with crash
RECURSIVE BuildFrom(_, _, _)
BuildStep(r, order, m) ==
  IF r.crash THEN r ELSE BuildFrom(r.root, Tail(order), m)

BuildFrom(rt, order, m) ==
  IF order = <<>> THEN [root |-> rt, crash |-> FALSE]
  ELSE BuildStep(Insert(rt, Head(order), m[Head(order)], maxEntries, minEntries,
                        <<0, 0>>),
                 order, m)

\* The keys of the set ks from the largest to the smallest
RECURSIVE Descending(_)
Descending(ks) ==
  IF ks = {} THEN <<>>
  ELSE <<CHOOSE k \in ks : \A j \in ks : j <= k>>
       \o Descending(ks \ {CHOOSE k \in ks : \A j \in ks : j <= k})

\* C24: two indexes that hold the same entries, built by different
\* insertion orders, return the same key from FindNearest for the same
\* point (stated here for the index at hand, when it holds exactly the
\* stored pairs, and the index built from them in descending key order).
C24_FindNearestIgnoresOrder ==
  (~crashed /\ Holds(root, stored)
     /\ ~BuildFrom(RTreeLeafNode, Descending(DOMAIN stored), stored).crash) =>
    \A p \in QueryPoints :
      FindNearest(root, p[1], p[2]).index =
        FindNearest(BuildFrom(RTreeLeafNode, Descending(DOMAIN stored),
                              stored).root, p[1], p[2]).index

\* Inserts of boxes of which one, BoxX, reaches from BoxA to the corner
\* between BoxC and BoxD, and FindNearest at that corner
BoxX == BBox(10, 10, 45, 45)
NearBoxes == {BoxA, BoxC, BoxD, BoxX}
NearPoints == {<<45, 45>>, <<40, 40>>}

DoInsertNear ==
  /\ InsertCalled
  /\ \E index \in NextKeys, box \in NearBoxes :
       \E u \in SeedChoices(Insert(root, index, box, maxEntries, minEntries,
                                   <<0, 0>>).crash) :
       InsertDone(index, box,
                  Insert(root, index, box, maxEntries, minEntries, u))
  /\ UNCHANGED <<maxEntries, minEntries>>
  /\ UNCHANGED rectVars

DoFindNearestNear ==
  /\ ~crashed
  /\ \E p \in NearPoints :
       crashed' = FindNearest(root, p[1], p[2]).crash
  /\ UNCHANGED <<root, maxEntries, minEntries, stored, inserted, ops>>
  /\ UNCHANGED rectVars

NextNear == DoInsertNear \/ DoFindNearestNear

SpecNear == Init /\ [][NextNear]_vars

\* C25: if the query point lies inside at least one stored box, boundary
\* included, FindNearest returns the key of a stored box that contains the
\* point.
C25_FindNearestInsideBox ==
  (~crashed /\ Holds(root, stored)) =>
    \A p \in QueryPoints \cup NearPoints :
      (\E k \in DOMAIN stored : Contains(stored[k], p[1], p[2])) =>
        /\ ~FindNearest(root, p[1], p[2]).crash
        /\ FindNearest(root, p[1], p[2]).index \in DOMAIN stored
        /\ Contains(stored[FindNearest(root, p[1], p[2]).index], p[1], p[2])

Pairs(n) == {p \in (1..n) \X (1..n) : p[1] < p[2]}

\* The pair p comes before the pair q in the scan of ChooseSeeds
ScannedBefore(p, q) == p[1] < q[1] \/ (p[1] = q[1] /\ p[2] < q[2])

\* The seeds cs are the first pair in scan order with the greatest waste
\* over the boxes bs
FirstMaxWastePair(cs, bs) ==
  /\ <<cs.seed1, cs.seed2>> \in Pairs(Len(bs))
  /\ \A q \in Pairs(Len(bs)) :
       /\ Waste(bs[q[1]], bs[q[2]]) <= Waste(bs[cs.seed1], bs[cs.seed2])
       /\ (Waste(bs[q[1]], bs[q[2]]) = Waste(bs[cs.seed1], bs[cs.seed2])
             => ~ScannedBefore(q, <<cs.seed1, cs.seed2>>))

SingleChildRoot(rt) ==
  ~IsNull(rt) /\ ~IsLeaf(rt) /\ Len(rt.children) = 1

RECURSIVE LeafDepths(_, _)
LeafDepths(node, d) ==
  IF IsNull(node) THEN {}
  ELSE IF IsLeaf(node) THEN {d}
  ELSE UNION {LeafDepths(node.children[i], d + 1) : i \in DOMAIN node.children}

\* The children of the Internal node n are all Leaves or all Internal nodes
UniformChildren(n) ==
  \/ \A i \in DOMAIN n.children :
       ~IsNull(n.children[i]) /\ IsLeaf(n.children[i])
  \/ \A i \in DOMAIN n.children :
       ~IsNull(n.children[i]) /\ ~IsLeaf(n.children[i])

Balanced(rt) ==
  /\ Cardinality(LeafDepths(rt, 0)) <= 1
  /\ \A n \in Nodes(rt) : ~IsLeaf(n) => UniformChildren(n)

RECURSIVE Height(_)
MaxHeight(hs) == IF hs = {} THEN 0 ELSE CHOOSE h \in hs : \A g \in hs : g <= h
Height(node) ==
  IF IsNull(node) THEN 0
  ELSE IF IsLeaf(node) THEN 1
  ELSE 1 + MaxHeight({Height(node.children[i]) : i \in DOMAIN node.children})

\* What the claim says of an Insert on the tree before whose top-level
\* InsertInternal returned top and that left the tree after
GrowsByRootSplit(before, top, after) ==
  IF ~IsNull(top.newNode)
  THEN /\ Height(after) = Height(before) + 1
       /\ ~IsLeaf(after)
       /\ after.children = <<top.node, top.newNode>>
  ELSE /\ Height(after) = Height(before)
       /\ after = top.node

\* The same for the Insert that ends with top, if it returns
InsertGrows(before, top) ==
  ~top.crash => GrowsByRootSplit(before, top, NewRoot(before, top).root)

\* C33: an Insert increases the height of the tree by exactly one if the
\* top-level recursive insert returns a new sibling, and leaves it unchanged
\* otherwise; right after such a growth the new root is an Internal node with
\* exactly two children, the old root followed by the new sibling; Delete
\* never increases the height (stated for every Insert that returns).
C33_HeightGrowsByRootSplit ==
  ~crashed =>
    /\ \A k \in NextKeys : \A b \in Boxes :
         \A u \in SeedChoices(InsertInternal(root, k, b, maxEntries,
                                             minEntries, <<0, 0>>).crash) :
           InsertGrows(root,
                       InsertInternal(root, k, b, maxEntries, minEntries, u))
    /\ \A k \in inserted \cup {AbsentKey} :
         Height(Delete(root, k).root) <= Height(root)

\* An Internal root is split by an Insert and the tree grows to three levels
C33_Witness ==
  /\ ~crashed
  /\ Height(root) = 2
  /\ \E k \in NextKeys : \E b \in Boxes :
       /\ ~InsertInternal(root, k, b, maxEntries, minEntries, <<0, 0>>).crash
       /\ ~IsNull(InsertInternal(root, k, b, maxEntries, minEntries,
                                 <<0, 0>>).newNode)
       /\ Height(Insert(root, k, b, maxEntries, minEntries, <<0, 0>>).root) = 3

\* ------------------------------------------------- the splits step by step
\* SplitLeafNode and SplitInternalNode run one loop iteration at a time on a
\* node that has just overflowed.  root is the node, last the running call:
\* its groups, their boxes, what is left to distribute, and in pick what the
\* last iteration did.
MaxItems == 4
SplitBoxes == {BoxA, BoxB, BoxC, BoxD, BoxX}
ItemSeqs == UNION {[1..n -> SplitBoxes] : n \in 2..MaxItems}

\* A Leaf whose entries have the rects, with keys 1, 2, ...; an Internal
\* node whose children do
LeafOf(rects) ==
  AddEntries(RTreeLeafNode, [i \in 1..Len(rects) |-> Entry(i, rects[i])])
InternalOf(rects) ==
  AddChildren(RTreeInternalNode,
              [i \in 1..Len(rects) |-> AddEntry(RTreeLeafNode, i, rects[i])])

InitSplit ==
  /\ \E rects \in ItemSeqs :
       /\ root \in {LeafOf(rects), InternalOf(rects)}
       /\ maxEntries = Len(rects)
  /\ \E requestedMin \in {2, 3} :
       minEntries = ClampMinEntries(maxEntries, requestedMin)
  /\ crashed = FALSE
  /\ stored = EmptyMap
  /\ inserted = {}
  /\ ops = 0
  /\ bbox = InvalidBBox
  /\ other = InvalidBBox
  /\ last = NoCall

NoPick == [made |-> FALSE]
Picked(item, size1, size2, remaining, enlargement1, enlargement2, toGroup1) ==
  [made |-> TRUE, item |-> item, size1 |-> size1, size2 |-> size2,
   forced |-> size1 + remaining < minEntries
              \/ size2 + remaining < minEntries,
   enlargement1 |-> enlargement1, enlargement2 |-> enlargement2,
   toGroup1 |-> toGroup1]

\* SplitLeafNode up to its loop, with the sorted seeds
LeafRun(entries, seed1, seed2, u) ==
  [op |-> "SplitLeafNode", entries |-> entries, i |-> 1,
   assigned |-> {seed1, seed2},
   group1 |-> <<entries[seed1]>>, group2 |-> <<entries[seed2]>>,
   box1 |-> entries[seed1].box, box2 |-> entries[seed2].box,
   remaining |-> Len(entries) - 2, u |-> u, pick |-> NoPick]

\* SplitInternalNode up to its loop, with the sorted seeds
InternalRun(node, seed1, seed2) ==
  [op |-> "SplitInternalNode",
   node |-> RemoveChild(RemoveChild(node, seed1), seed2 - 1),
   group1 |-> <<node.children[seed1]>>,
   group2 |-> <<RemoveChild(node, seed1).children[seed2 - 1]>>,
   box1 |-> node.children[seed1].box,
   box2 |-> RemoveChild(node, seed1).children[seed2 - 1].box,
   u |-> <<0, 0>>, pick |-> NoPick]

BeginLeaf(cs, u) ==
  IF Min(cs.seed1, cs.seed2) < 1 \/ Max(cs.seed1, cs.seed2) > Len(root.entries)
  THEN crashed' = TRUE /\ UNCHANGED last
  ELSE /\ last' = LeafRun(root.entries, Min(cs.seed1, cs.seed2),
                          Max(cs.seed1, cs.seed2), u)
       /\ UNCHANGED crashed

BeginInternal(cs) ==
  /\ last' = InternalRun(root, Min(cs.seed1, cs.seed2),
                         Max(cs.seed1, cs.seed2))
  /\ UNCHANGED crashed

\* The call of a split on the overflowing node, up to the loop
DoSplitBegin ==
  /\ ~crashed
  /\ last = NoCall
  /\ IF IsLeaf(root)
     THEN \E u \in SeedChoices(ChooseSeeds(root.entries, <<0, 0>>).seed1 = 0) :
            BeginLeaf(ChooseSeeds(root.entries, u), u)
     ELSE BeginInternal(ChooseSeedsForNodes(root.children))
  /\ UNCHANGED <<root, maxEntries, minEntries, stored, inserted, ops>>
  /\ UNCHANGED <<bbox, other>>

\* One iteration of the for loop of SplitLeafNode
LeafAssign(run, enlargement1, enlargement2, toGroup1) ==
  [run EXCEPT
     !.i = @ + 1,
     !.assigned = @ \cup {run.i},
     !.group1 = IF toGroup1 THEN Append(@, run.entries[run.i]) ELSE @,
     !.group2 = IF toGroup1 THEN @ ELSE Append(@, run.entries[run.i]),
     !.box1 = IF toGroup1 THEN Expand(@, run.entries[run.i].box) ELSE @,
     !.box2 = IF toGroup1 THEN @ ELSE Expand(@, run.entries[run.i].box),
     !.remaining = @ - 1,
     !.pick = Picked(run.entries[run.i], Len(run.group1), Len(run.group2),
                     run.remaining, enlargement1, enlargement2, toGroup1)]

LeafLoopStep(run, enlargement1, enlargement2) ==
  IF run.i \in run.assigned
  THEN [run EXCEPT !.i = @ + 1, !.pick = NoPick]
  ELSE LeafAssign(run, enlargement1, enlargement2,
                  ToGroup1(Len(run.group1), Len(run.group2), run.remaining,
                           minEntries, enlargement1, enlargement2))

DoSplitLeafStep ==
  /\ ~crashed
  /\ last.op = "SplitLeafNode"
  /\ last.i <= Len(last.entries)
  /\ last' = LeafLoopStep(last,
                          EnlargementArea(last.box1, last.entries[last.i].box),
                          EnlargementArea(last.box2, last.entries[last.i].box))
  /\ UNCHANGED treeVars
  /\ UNCHANGED <<bbox, other>>

\* One iteration of the while loop of SplitInternalNode
InternalAssign(run, bestChild, enlargement1, enlargement2, toGroup1) ==
  [run EXCEPT
     !.node = RemoveChild(@, bestChild),
     !.group1 = IF toGroup1 THEN Append(@, run.node.children[bestChild]) ELSE @,
     !.group2 = IF toGroup1 THEN @ ELSE Append(@, run.node.children[bestChild]),
     !.box1 = IF toGroup1 THEN Expand(@, run.node.children[bestChild].box)
              ELSE @,
     !.box2 = IF toGroup1 THEN @
              ELSE Expand(@, run.node.children[bestChild].box),
     !.pick = Picked(run.node.children[bestChild], Len(run.group1),
                     Len(run.group2), Len(run.node.children), enlargement1,
                     enlargement2, toGroup1)]

InternalLoopStep(run, bestChild, enlargement1, enlargement2) ==
  InternalAssign(run, bestChild, enlargement1, enlargement2,
                 ToGroup1(Len(run.group1), Len(run.group2),
                          Len(run.node.children), minEntries, enlargement1,
                          enlargement2))

InternalLoopPick(run, bestChild) ==
  InternalLoopStep(run, bestChild,
                   EnlargementArea(run.box1, run.node.children[bestChild].box),
                   EnlargementArea(run.box2, run.node.children[bestChild].box))

DoSplitInternalStep ==
  /\ ~crashed
  /\ last.op = "SplitInternalNode"
  /\ last.node.children # <<>>
  /\ last' = InternalLoopPick(last,
                              BestDiffChild(last.node.children, 1, last.box1,
                                            last.box2, 1, -1))
  /\ UNCHANGED treeVars
  /\ UNCHANGED <<bbox, other>>

\* The loop is over: the node is rebuilt from group1, newNode from group2
SplitLoopOver ==
  \/ last.op = "SplitLeafNode" /\ last.i > Len(last.entries)
  \/ last.op = "SplitInternalNode" /\ last.node.children = <<>>

DoSplitEnd ==
  /\ ~crashed
  /\ SplitLoopOver
  /\ last' = [op |-> "SplitDone", u |-> last.u,
              result |-> IF last.op = "SplitLeafNode" THEN LeafGroups(last)
                         ELSE InternalGroups(last)]
  /\ UNCHANGED treeVars
  /\ UNCHANGED <<bbox, other>>

NextSplit ==
  DoSplitBegin \/ DoSplitLeafStep \/ DoSplitInternalStep \/ DoSplitEnd

SpecSplit == InitSplit /\ [][NextSplit]_vars

\* The split run step by step ends with what the split returns
SplitStepsAgree ==
  last.op = "SplitDone" =>
    last.result = IF IsLeaf(root) THEN SplitLeafNode(root, minEntries, last.u)
                  ELSE SplitInternalNode(root, minEntries)

\* The last loop iteration of a split assigned an item that was not forced
\* and whose enlargement was the same for both groups
TiedPick ==
  /\ last.op \in {"SplitLeafNode", "SplitInternalNode"}
  /\ last.pick.made
  /\ ~last.pick.forced
  /\ last.pick.enlargement1 = last.pick.enlargement2

\* The item of the last iteration is the last item of group1 (of group2)
PickedInto1 ==
  last.pick.toGroup1 /\ last.group1[Len(last.group1)] = last.pick.item
PickedInto2 ==
  ~last.pick.toGroup1 /\ last.group2[Len(last.group2)] = last.pick.item

\* C34 as the code has it: during a split of either kind, a non-forced item
\* whose enlargement is equal for both groups is assigned to the group that
\* has fewer items, and to group2 when both groups have the same size.
C34_TieGoesToSmallerElseGroup2 ==
  TiedPick =>
    IF last.pick.size1 < last.pick.size2 THEN PickedInto1 ELSE PickedInto2

\* A non-forced item with equal enlargements meets groups of the same size
C34_Witness ==
  TiedPick /\ last.pick.size1 = last.pick.size2 /\ PickedInto2

\* C34: during a split, a non-forced item whose enlargement is equal for
\* both groups is assigned to the group that currently has fewer items, and
\* when both groups also have the same size it is assigned to group1.
C34_TieGoesToSmallerElseGroup1 ==
  TiedPick =>
    IF last.pick.size1 <= last.pick.size2 THEN PickedInto1 ELSE PickedInto2

\* The rects of the items of a node, in order
RectsOf(node) ==
  IF IsLeaf(node) THEN BoxesOf(node.entries) ELSE BoxesOf(node.children)

\* The positions, in the sequence the overflowing node had, of the items of
\* a node a split returned: the key of an entry, the key of the only entry
\* of a child
PositionsIn(node) ==
  IF IsLeaf(node) THEN [i \in 1..Len(node.entries) |-> node.entries[i].index]
  ELSE [i \in 1..Len(node.children) |-> node.children[i].entries[1].index]

SameGroups(leafSplit, internalSplit) ==
  /\ Range(PositionsIn(leafSplit.node))
       = Range(PositionsIn(internalSplit.node))
  /\ Range(PositionsIn(leafSplit.newNode))
       = Range(PositionsIn(internalSplit.newNode))

\* C35: for the same sequence of item rects and the same minEntries,
\* SplitInternalNode puts every item into the same group as SplitLeafNode
\* does (stated for the split that has just run on the overflowing node and
\* the split of the other kind on the same rects, when ChooseSeeds assigns
\* the seeds of SplitLeafNode).
C35_InternalSplitAsLeafSplit ==
  (last.op = "SplitDone"
     /\ ChooseSeeds(LeafOf(RectsOf(root)).entries, <<0, 0>>).seed1 # 0) =>
    SameGroups(IF IsLeaf(root) THEN last.result
               ELSE SplitLeafNode(LeafOf(RectsOf(root)), minEntries, <<0, 0>>),
               IF IsLeaf(root)
               THEN SplitInternalNode(InternalOf(RectsOf(root)), minEntries)
               ELSE last.result)

\* Child c of node is the lowest-indexed one among the children with the
\* least enlargement of their cached rect by box and, among those, the
\* smallest cached-rect area
LeastEnlargementThenArea(node, box, c) ==
  /\ c \in 1..Len(node.children)
  /\ \A i \in 1..Len(node.children) :
       \/ EnlargementArea(node.children[c].box, box)
            < EnlargementArea(node.children[i].box, box)
       \/ /\ EnlargementArea(node.children[c].box, box)
               = EnlargementArea(node.children[i].box, box)
          /\ \/ Area(node.children[c].box) < Area(node.children[i].box)
             \/ /\ Area(node.children[c].box) = Area(node.children[i].box)
                /\ c <= i

\* The children of the nodes an insert returned, and their number
ChildrenAfter(r) ==
  Range(r.node.children)
    \cup (IF IsNull(r.newNode) THEN {} ELSE Range(r.newNode.children))
ChildCountAfter(r) ==
  Len(r.node.children)
    + (IF IsNull(r.newNode) THEN 0 ELSE Len(r.newNode.children))

\* The insert into node that returned r went into child c and no other:
\* every other child is among the children afterwards as it was, and with
\* them what the insert into child c returned
DescendsInto(node, c, r, below) ==
  ~r.crash =>
    /\ \A i \in 1..Len(node.children) :
         i # c => node.children[i] \in ChildrenAfter(r)
    /\ below.node \in ChildrenAfter(r)
    /\ ~IsNull(below.newNode) => below.newNode \in ChildrenAfter(r)
    /\ ChildCountAfter(r)
         = Len(node.children) + (IF IsNull(below.newNode) THEN 0 ELSE 1)

\* The Internal nodes of the tree that have a child and no null child
SoundInternalNodes(rt) ==
  {n \in Nodes(rt) : ~IsLeaf(n) /\ n.children # <<>> /\ ~AnyNull(n.children)}

\* Both for the insert of (k, b) into node, whose ChooseBestChild returns c
ChoiceAndDescent(node, k, b, c) ==
  /\ LeastEnlargementThenArea(node, b, c)
  /\ DescendsInto(node, c,
                  InsertInternal(node, k, b, maxEntries, minEntries, <<1, 1>>),
                  InsertInternal(node.children[c], k, b, maxEntries,
                                 minEntries, <<1, 1>>))

\* C36: for an Internal node with at least one child ChooseBestChild
\* returns the lowest index among the children that minimize
\* EnlargementArea(rect) of their cached rect and, among those, have the
\* smallest cached-rect Area(); the insert descends into exactly that child.
C36_ChooseBestChildLeastEnlargement ==
  ~crashed =>
    \A n \in SoundInternalNodes(root) : \A b \in Boxes : \A k \in NextKeys :
      ChoiceAndDescent(n, k, b, ChooseBestChild(n, b))

\* The root has a child of higher index that ties with the first on the
\* enlargement by some box and wins on the smaller area
C36_Witness ==
  /\ ~crashed
  /\ root \in SoundInternalNodes(root)
  /\ \E b \in Boxes :
       /\ ChooseBestChild(root, b) > 1
       /\ EnlargementArea(root.children[ChooseBestChild(root, b)].box, b)
            = EnlargementArea(root.children[1].box, b)
       /\ Area(root.children[ChooseBestChild(root, b)].box)
            < Area(root.children[1].box)

\* The children a node holds: its child pointers that are not null
ChildrenHeld(n) == {i \in 1..Len(n.children) : ~IsNull(n.children[i])}

\* C37: after any sequence of Insert, Delete and Update calls every non-root
\* Leaf holds at least one entry and every Internal node, the root included,
\* holds at least one child.
C37_NoEmptyNode ==
  ~crashed =>
    \A n \in Nodes(root) :
      IF IsLeaf(n) THEN n = root \/ Len(n.entries) >= 1
      ELSE ChildrenHeld(n) # {}

\* The stored boxes of keys j and k are at the same Euclidean distance from
\* the point p, which is outside both
EquidistantOutside(p, j, k) ==
  /\ ~Contains(stored[j], p[1], p[2])
  /\ ~Contains(stored[k], p[1], p[2])
  /\ DistanceToBox(p[1], p[2], stored[j]).e
       = DistanceToBox(p[1], p[2], stored[k]).e

\* C38: when two stored boxes are at the same Euclidean distance from the
\* query point, the point being outside both, FindNearest prioritizes the
\* box with the larger key: it never returns the smaller key of such a pair.
C38_TiePrefersLargerKey ==
  (~crashed /\ Holds(root, stored)) =>
    \A p \in QueryPoints \cup NearPoints :
      \A j \in DOMAIN stored : \A k \in DOMAIN stored :
        (j < k /\ EquidistantOutside(p, j, k)) =>
          FindNearest(root, p[1], p[2]).index # j

\* Every iteration of the while loop of SplitInternalNode removes exactly
\* one child from the overflowing node and adds it to one group
SplitInternalRemovesOne ==
  [][DoSplitInternalStep =>
       /\ Len(last'.node.children) = Len(last.node.children) - 1
       /\ Len(last'.group1) + Len(last'.group2)
            = Len(last.group1) + Len(last.group2) + 1]_vars

\* A split takes at most one step per item of the overflowing node before
\* its loop is over: what is left to distribute shrinks with every step
SplitStepsLeft ==
  IF last.op = "SplitLeafNode" THEN Len(last.entries) + 1 - last.i
  ELSE IF last.op = "SplitInternalNode" THEN Len(last.node.children)
  ELSE 0

SplitStepsDecrease ==
  [][(DoSplitLeafStep \/ DoSplitInternalStep) =>
       SplitStepsLeft' = SplitStepsLeft - 1]_vars

\* C39: every Insert, Update, Search and FindNearest call on the finite tree
\* at hand runs to completion (Delete has no other outcome in the model), for
\* every value the unassigned seeds of a split may hold.
C39_CallsRunToCompletion ==
  ~crashed =>
    /\ \A k \in NextKeys : \A b \in Boxes :
         \A r \in InsertOutcomes(root, k, b) : ~r.crash
    /\ \A k \in inserted \cup {AbsentKey} : \A b \in Boxes :
         \A r \in UpdateOutcomes(root, k, b) : ~r.crash
    /\ ~SearchCrashes(root)
    /\ \A p \in QueryPoints : ~FindNearest(root, p[1], p[2]).crash

====
